---- MODULE Spec2Model ----
(***************************************************************************)
(* Bi-Kanpe casters: the web caster page (web-caster/app.js), the desktop  *)
(* caster's useClientState hook as used by ClientView and MonitorPopout.   *)
(* The director's hub is not part of the sources; the frames it may put on *)
(* a connection follow the handshake of the specification.                 *)
(***************************************************************************)
EXTENDS Integers, Sequences, FiniteSets, TLC

\* ---------------------------------------------------------------- bounds
MaxSockets == 2        \* WebSocket objects the page creates in one behaviour
MaxMsgs == 2           \* kanpe envelopes the hub mints in one behaviour
MaxSelected == 2       \* monitors the user selects at a time
MaxTrigger == 2        \* cap of the hook's flashTrigger and clearTrigger counters
MaxReqs == 2           \* feedback and control requests the user makes in one behaviour
MaxMonitors == 2       \* cap of the length of the hook's monitor mirror
MaxPending == 1        \* invokes of the director's window awaiting their result
MaxFeedback == 2       \* feedback messages the server receives in one behaviour
MaxClients == 2        \* casters the server accepts in one behaviour

\* ------------------------------------------------------------- constants
ALL == "ALL"
NoSocket == 0
EmptyId == 0           \* the empty string where an id is expected

SocketIds == 1..MaxSockets
\* Envelope ids a client's generateUUID() may return, and the ids of the hub's pings.
UUIDs == {1, 2}
PingIds == {1}
Priorities == {"normal", "urgent"}

\* The FeedbackType of the wire protocol
FeedbackTypes == {"ack", "question", "issue", "info"}

\* A feedback template (its content is not part of what the model observes)
Template(i, ftype) == [id |-> i, feedback_type |-> ftype]

\* The web caster's templates
DEFAULT_TEMPLATES ==
    << Template("1", "ack"), Template("2", "ack"), Template("3", "question"),
       Template("4", "question"), Template("5", "issue"), Template("6", "info") >>

\* Monitors as the wire carries them (description and color are not read).
Mon(i, n) == [id |-> i, name |-> n]

\* requestMonitorList's hard-coded list
PlaceholderMonitors ==
    << Mon("A", "monitorA"), Mon("B", "monitorB"),
       Mon("C", "monitorC"), Mon("D", "monitorD") >>

\* Lists a monitor_list_sync may carry, and monitors a delta may carry.
SyncLists == { << Mon("B", "Actor") >>, << Mon("A", "Host"), Mon("B", "Actor") >> }
DeltaMonitors == { Mon("A", "Lead") }
DeltaIds == {"B"}

\* target_monitor_ids lists a directive may carry.
TargetLists == { <<ALL>>, <<"A">>, <<"B", ALL>> }

\* ------------------------------------------------------------- envelopes
\* One record shape for every frame the hub sends.
Envelope(t, i, targets, prio, mons, mid) ==
    [type |-> t, id |-> i, target_monitor_ids |-> targets, priority |-> prio,
     monitors |-> mons, monitor_id |-> mid]

NoMessage == Envelope("null", 0, <<>>, "", <<>>, "")

KanpeMessage(i, targets, prio) == Envelope("kanpe_message", i, targets, prio, <<>>, "")
FlashCommand(targets) == Envelope("flash_command", 0, targets, "", <<>>, "")
ClearCommand(targets) == Envelope("clear_command", 0, targets, "", <<>>, "")
ServerWelcome == Envelope("server_welcome", 0, <<>>, "", <<>>, "")
MonitorListSync(mons) == Envelope("monitor_list_sync", 0, <<>>, "", mons, "")
MonitorAdded(m) == Envelope("monitor_added", 0, <<>>, "", <<m>>, "")
MonitorRemoved(mid) == Envelope("monitor_removed", 0, <<>>, "", <<>>, mid)
MonitorUpdated(m) == Envelope("monitor_updated", 0, <<>>, "", <<m>>, "")
Ping(i) == Envelope("ping", i, <<>>, "", <<>>, "")

\* A feedback_message envelope; the empty string of reply_to_message_id is EmptyId
FeedbackFrame(s, i, name, replyTo, ftype) ==
    [sock |-> s, type |-> "feedback_message", id |-> i, client_name |-> name,
     display_monitor_ids |-> <<>>, reply_to_message_id |-> replyTo,
     feedback_type |-> ftype]

\* One record shape for every other frame a client writes to a socket.
ClientFrame(s, t, i, name, ids) ==
    [sock |-> s, type |-> t, id |-> i, client_name |-> name, display_monitor_ids |-> ids]

\* ------------------------------------------------------ array primitives
Range(seq) == { seq[i] : i \in 1..Len(seq) }

\* Array.prototype.includes
includes(arr, x) == \E i \in 1..Len(arr) : arr[i] = x

\* Array.prototype.indexOf, 0-based, -1 when absent
indexOf(arr, x) ==
    IF includes(arr, x)
    THEN (CHOOSE i \in 1..Len(arr) : arr[i] = x /\ \A j \in 1..(i-1) : arr[j] # x) - 1
    ELSE -1

\* arr.splice(index, 1), index 0-based
splice1(arr, index) ==
    [ i \in 1..(Len(arr) - 1) |-> IF i <= index THEN arr[i] ELSE arr[i + 1] ]

\* Array.prototype.filter with the predicate "id differs from x"
filterOutId(arr, x) == SelectSeq(arr, LAMBDA m : m.id # x)

\* Array.prototype.map replacing the entries whose id is m.id by m
mapReplace(arr, m) == [ i \in 1..Len(arr) |-> IF arr[i].id = m.id THEN m ELSE arr[i] ]

VARIABLES
    proc,        \* the caster process this behaviour follows: the processes share no state
    state,       \* app.js: the page's state object
    elements,    \* app.js: the DOM properties the handlers read and write
    sockets,     \* the WebSocket objects the page created: readyState of each
    conn,        \* hub side of each connection: handshake phase
    nextId,      \* ids the hub has minted for kanpe envelopes
    evt,         \* the input the last step handled
    tx,          \* the frames the last step wrote to sockets
    hook,        \* useClientState: the hook's state value
    props,       \* the component's inputs: displayMonitorIds, and the popout's monitorId
    deck,        \* BiKanpeClient: the StreamDeck plugin's singleton client
    dir,         \* the director's window: useServerState and ServerView's own state
    reqs         \* feedback and control requests the user has made so far

vars == << proc, state, elements, sockets, conn, nextId, evt, tx, hook, props,
           deck, dir, reqs >>
webVars == << state, elements, sockets, conn, tx >>
hookVars == << hook, props >>
restVars == << deck, dir, reqs >>

\* --------------------------------------------------------------- the page
\* The page's mutable world as one value, so that a handler is a function.
World == [state |-> state, elements |-> elements, sockets |-> sockets, tx |-> <<>>]

Event(kind, s, msg) == [kind |-> kind, sock |-> s, msg |-> msg]

\* WebSocket.send: throws on a CONNECTING socket (the caller's handler ends
\* there), transmits on an OPEN one, silently discards on a closing or closed one.
wsSend(w, s, frame) ==
    IF w.sockets[s] = "OPEN" THEN [w EXCEPT !.tx = Append(@, frame)] ELSE w

\* showError only touches the error banner, which no handler reads.
showError(w) == w

\* renderMonitorSelection: one option per available monitor
renderMonitorSelection(w) ==
    [w EXCEPT !.elements.monitorList =
        [ i \in 1..Len(w.state.availableMonitors) |-> w.state.availableMonitors[i].id ]]

\* toggleMonitorSelection(monitorId, element)
toggleMonitorSelection(w, monitorId) ==
    LET index == indexOf(w.state.selectedMonitorIds, monitorId) IN
    IF index > -1
    THEN [w EXCEPT !.state.selectedMonitorIds = splice1(@, index)]
    ELSE [w EXCEPT !.state.selectedMonitorIds = Append(@, monitorId)]

\* handleConnect; s is the WebSocket object the constructor returns
handleConnect(w, s) ==
    IF w.elements.clientNameInput = "" THEN showError(w)
    ELSE IF Len(w.state.selectedMonitorIds) = 0 THEN showError(w)
    ELSE [w EXCEPT !.state.clientName = w.elements.clientNameInput,
                   !.state.ws = s,
                   !.sockets[s] = "CONNECTING",
                   !.elements.connectBtnDisabled = TRUE]

\* handleWebSocketOpen: state.ws.send(hello); a null state.ws throws
handleWebSocketOpen(w, uuid) ==
    IF w.state.ws = NoSocket THEN w
    ELSE wsSend(w, w.state.ws,
                ClientFrame(w.state.ws, "client_hello", uuid,
                            w.state.clientName, w.state.selectedMonitorIds))

\* handleServerWelcome
handleServerWelcome(w, message) ==
    [w EXCEPT !.state.connected = TRUE,
              !.elements.connectionScreen = "none",
              !.elements.displayScreen = "flex"]

\* A sync that merges the payload into the list it finds
handleMonitorListSyncMerge(w, message) ==
    LET fresh == { message.monitors[i].id : i \in 1..Len(message.monitors) }
        kept == SelectSeq(w.state.availableMonitors, LAMBDA m : m.id \notin fresh)
    IN [w EXCEPT !.state.availableMonitors = kept \o message.monitors]

\* handleMonitorListSync
handleMonitorListSync(w, message) ==
    LET w1 == [w EXCEPT !.state.availableMonitors = message.monitors] IN
    IF ~w1.state.connected THEN renderMonitorSelection(w1) ELSE w1

\* Array.prototype.some with the predicate "targetIds includes the id"
someIncluded(ids, targetIds) == \E i \in 1..Len(ids) : includes(targetIds, ids[i])

\* A filter that forgets the reserved id ALL
shouldDisplayNoAll(targetIds, selectedMonitorIds) ==
    someIncluded(selectedMonitorIds, targetIds)

\* handleKanpeMessage's shouldDisplay
shouldDisplay(targetIds, selectedMonitorIds) ==
    includes(targetIds, ALL) \/ someIncluded(selectedMonitorIds, targetIds)

\* handleFlashCommand's shouldFlash
shouldFlash(targetIds, selectedMonitorIds) ==
    includes(targetIds, ALL) \/ someIncluded(selectedMonitorIds, targetIds)

\* handleClearCommand's shouldClear
shouldClear(targetIds, selectedMonitorIds) ==
    includes(targetIds, ALL) \/ someIncluded(selectedMonitorIds, targetIds)

\* updateFeedbackButtons: reply buttons exist only if a message is current
updateFeedbackButtons(w) ==
    [w EXCEPT !.elements.replyButtons = (w.state.currentMessage # NoMessage),
              !.elements.newButtons = TRUE]

\* handleKanpeMessage
handleKanpeMessage(w, message) ==
    IF ~shouldDisplay(message.target_monitor_ids, w.state.selectedMonitorIds) THEN w
    ELSE updateFeedbackButtons(
           [w EXCEPT !.state.currentMessage = message,
                     !.elements.messageContent = "block",
                     !.elements.flashAnimation =
                         IF message.priority = "urgent" THEN TRUE ELSE @])

\* handleFlashCommand
handleFlashCommand(w, message) ==
    IF shouldFlash(message.target_monitor_ids, w.state.selectedMonitorIds)
    THEN [w EXCEPT !.elements.flashAnimation = TRUE]
    ELSE w

\* handleClearCommand
handleClearCommand(w, message) ==
    IF shouldClear(message.target_monitor_ids, w.state.selectedMonitorIds)
    THEN [w EXCEPT !.state.currentMessage = NoMessage,
                   !.elements.messageContent = "none"]
    ELSE w

\* sendPong: the pong's id is a fresh generateUUID()
sendPong(w, uuid) ==
    IF w.state.ws = NoSocket THEN w
    ELSE IF w.sockets[w.state.ws] # "OPEN" THEN w
    ELSE wsSend(w, w.state.ws, ClientFrame(w.state.ws, "pong", uuid, "", <<>>))

\* handleWebSocketMessage, for a frame that JSON.parse accepts
handleWebSocketMessage(w, message, uuid) ==
    CASE message.type = "server_welcome" -> handleServerWelcome(w, message)
      [] message.type = "monitor_list_sync" -> handleMonitorListSync(w, message)
      [] message.type = "kanpe_message" -> handleKanpeMessage(w, message)
      [] message.type = "flash_command" -> handleFlashCommand(w, message)
      [] message.type = "clear_command" -> handleClearCommand(w, message)
      [] message.type \in {"monitor_added", "monitor_removed", "monitor_updated"} -> w
      [] message.type = "ping" -> sendPong(w, uuid)
      [] OTHER -> w

\* handleWebSocketMessage, for a frame JSON.parse rejects: the catch logs it
handleUnparsableMessage(w) == w

\* handleWebSocketError
handleWebSocketError(w) ==
    [showError(w) EXCEPT !.elements.connectBtnDisabled = FALSE]

\* handleDisconnect
handleDisconnect(w) ==
    LET w1 == IF w.state.ws # NoSocket
              THEN [w EXCEPT !.sockets[w.state.ws] =
                                  IF @ \in {"CONNECTING", "OPEN"} THEN "CLOSING" ELSE @,
                             !.state.ws = NoSocket]
              ELSE w
    IN [w1 EXCEPT !.state.connected = FALSE,
                  !.state.currentMessage = NoMessage,
                  !.elements.displayScreen = "none",
                  !.elements.connectionScreen = "flex",
                  !.elements.connectBtnDisabled = FALSE,
                  !.elements.feedbackPanelActive = FALSE]

\* toggleFeedbackPanel
toggleFeedbackPanel(w) ==
    LET w1 == [w EXCEPT !.elements.feedbackPanelActive = ~@] IN
    IF w1.elements.feedbackPanelActive THEN updateFeedbackButtons(w1) ELSE w1

\* A sendFeedback whose replies name the kanpe received last, shown or not
sendFeedbackLatest(w, template, isReply, uuid) ==
    IF w.state.ws = NoSocket THEN w
    ELSE IF w.sockets[w.state.ws] # "OPEN" THEN w
    ELSE wsSend(w, w.state.ws,
                FeedbackFrame(w.state.ws, uuid, w.state.clientName,
                              IF isReply THEN nextId ELSE EmptyId,
                              template.feedback_type))

\* sendFeedback; uuid is the id generateUUID() returns
sendFeedback(w, template, isReply, uuid) ==
    IF w.state.ws = NoSocket THEN w
    ELSE IF w.sockets[w.state.ws] # "OPEN" THEN w
    ELSE wsSend(w, w.state.ws,
                FeedbackFrame(w.state.ws, uuid, w.state.clientName,
                              IF isReply /\ w.state.currentMessage # NoMessage
                              THEN w.state.currentMessage.id ELSE EmptyId,
                              template.feedback_type))

\* handleWebSocketClose
handleWebSocketClose(w) ==
    LET w1 == [w EXCEPT !.state.connected = FALSE, !.state.ws = NoSocket] IN
    IF w1.elements.displayScreen # "none" THEN handleDisconnect(w1) ELSE w1

\* ----------------------------------------------------- the hub's side
\* What the hub does with the frames a step wrote: a client_hello on a
\* connection that awaits it registers the client (welcome and sync are
\* then due, in that order); any other first frame closes the connection.
PeerReceive(c, frames) ==
    [ s \in SocketIds |->
        IF \E i \in 1..Len(frames) : frames[i].sock = s
        THEN LET first == frames[CHOOSE i \in 1..Len(frames) :
                                   frames[i].sock = s /\ \A j \in 1..(i-1) : frames[j].sock # s]
             IN IF c[s] = "await_hello"
                THEN (IF first.type = "client_hello" THEN "welcome_due" ELSE "violation")
                ELSE c[s]
        ELSE c[s] ]

\* A step's effect: the page's world after the handler, and the hub's phases c.
Commit(w, c) ==
    /\ state' = w.state
    /\ elements' = w.elements
    /\ sockets' = w.sockets
    /\ tx' = w.tx
    /\ conn' = PeerReceive(c, w.tx)

ConnectionScreenVisible == elements.connectionScreen # "none"
DisplayScreenVisible == elements.displayScreen = "flex"

\* ------------------------------------------------------------ user steps
ClickConnect ==
    /\ proc = "web"
    /\ ConnectionScreenVisible
    /\ ~elements.connectBtnDisabled
    /\ \E s \in SocketIds :
          /\ sockets[s] = "NONE"
          /\ \A r \in SocketIds : r < s => sockets[r] # "NONE"
          /\ Commit(handleConnect(World, s), conn)
          /\ evt' = Event("connect", IF state'.ws = s THEN s ELSE NoSocket, NoMessage)
    /\ UNCHANGED << proc, nextId, hookVars, restVars >>

ClickMonitorOption ==
    /\ proc = "web"
    /\ ConnectionScreenVisible
    /\ \E i \in 1..Len(elements.monitorList) :
          /\ \/ includes(state.selectedMonitorIds, elements.monitorList[i])
             \/ Len(state.selectedMonitorIds) < MaxSelected
          /\ Commit(toggleMonitorSelection(World, elements.monitorList[i]), conn)
          /\ evt' = Event("toggle", NoSocket, NoMessage)
    /\ UNCHANGED << proc, nextId, hookVars, restVars >>

ClickDisconnect ==
    /\ proc = "web"
    /\ DisplayScreenVisible
    /\ Commit(handleDisconnect(World), conn)
    /\ evt' = Event("disconnect", state.ws, NoMessage)
    /\ UNCHANGED << proc, nextId, hookVars, restVars >>

FlashTimeout ==
    /\ proc = "web"
    /\ elements.flashAnimation
    /\ Commit([World EXCEPT !.elements.flashAnimation = FALSE], conn)
    /\ evt' = Event("flash_timeout", NoSocket, NoMessage)
    /\ UNCHANGED << proc, nextId, hookVars, restVars >>

\* --------------------------------------------------------- socket events
SocketOpen(s) ==
    /\ proc = "web"
    /\ sockets[s] = "CONNECTING"
    /\ \E uuid \in UUIDs :
          Commit(handleWebSocketOpen([World EXCEPT !.sockets[s] = "OPEN"], uuid), conn)
    /\ evt' = Event("open", s, NoMessage)
    /\ UNCHANGED << proc, nextId, hookVars, restVars >>

\* The feedback toggle and the panel's buttons belong to the display screen.
ClickFeedbackToggle ==
    /\ proc = "web"
    /\ DisplayScreenVisible
    /\ Commit(toggleFeedbackPanel(World), conn)
    /\ evt' = Event("feedback_toggle", NoSocket, NoMessage)
    /\ UNCHANGED << proc, nextId, hookVars, restVars >>

\* A click on one of the buttons createFeedbackButton made
ClickFeedbackButton ==
    /\ proc = "web"
    /\ DisplayScreenVisible
    /\ elements.feedbackPanelActive
    /\ reqs < MaxReqs
    /\ reqs' = reqs + 1
    /\ \E isReply \in BOOLEAN, k \in 1..Len(DEFAULT_TEMPLATES) :
          /\ IF isReply THEN elements.replyButtons ELSE elements.newButtons
          /\ Commit(sendFeedback(World, DEFAULT_TEMPLATES[k], isReply, reqs + 1), conn)
          /\ evt' = Event(IF isReply THEN "feedback_reply" ELSE "feedback_new",
                          state.ws, NoMessage)
    /\ UNCHANGED << proc, nextId, hookVars, deck, dir >>

\* The connection attempt fails: error event, then close event, in one task.
SocketFail(s) ==
    /\ proc = "web"
    /\ sockets[s] = "CONNECTING"
    /\ Commit(handleWebSocketClose(handleWebSocketError(
                  [World EXCEPT !.sockets[s] = "CLOSED"])), conn)
    /\ evt' = Event("error", s, NoMessage)
    /\ UNCHANGED << proc, nextId, hookVars, restVars >>

\* The close event of a socket that was open, or that the page is closing.
SocketClose(s) ==
    /\ proc = "web"
    /\ sockets[s] \in {"OPEN", "CLOSING"}
    /\ Commit(handleWebSocketClose([World EXCEPT !.sockets[s] = "CLOSED"]), conn)
    /\ evt' = Event("close", s, NoMessage)
    /\ UNCHANGED << proc, nextId, hookVars, restVars >>

\* ------------------------------------------------- frames from the hub
\* The page handles one frame that arrived on socket s; c is the hub's phases
\* after sending it. Only sendPong draws a generateUUID().
Receive(kind, s, message, c) ==
    /\ proc = "web"
    /\ sockets[s] = "OPEN"
    /\ \E uuid \in (IF message.type = "ping" THEN UUIDs ELSE {1}) :
          Commit(handleWebSocketMessage(World, message, uuid), c)
    /\ evt' = Event(kind, s, message)
    /\ UNCHANGED << proc, hookVars, restVars >>

\* Handshake step 3: server_welcome, then monitor_list_sync, then Active.
PeerWelcome(s) ==
    /\ conn[s] = "welcome_due"
    /\ Receive("server_welcome", s, ServerWelcome, [conn EXCEPT ![s] = "sync_due"])
    /\ UNCHANGED nextId

PeerSync(s) ==
    /\ conn[s] = "sync_due"
    /\ \E mons \in SyncLists :
          Receive("monitor_list_sync", s, MonitorListSync(mons), [conn EXCEPT ![s] = "active"])
    /\ UNCHANGED nextId

\* Broadcast directives and registry deltas reach Active connections only.
PeerKanpe(s) ==
    /\ conn[s] = "active"
    /\ nextId < MaxMsgs
    /\ nextId' = nextId + 1
    /\ \E targets \in TargetLists, prio \in Priorities :
          Receive("kanpe_message", s, KanpeMessage(nextId + 1, targets, prio), conn)

PeerFlash(s) ==
    /\ conn[s] = "active"
    /\ \E targets \in TargetLists : Receive("flash_command", s, FlashCommand(targets), conn)
    /\ UNCHANGED nextId

PeerClear(s) ==
    /\ conn[s] = "active"
    /\ \E targets \in TargetLists : Receive("clear_command", s, ClearCommand(targets), conn)
    /\ UNCHANGED nextId

PeerDelta(s) ==
    /\ conn[s] = "active"
    /\ \E d \in { MonitorAdded(m) : m \in DeltaMonitors }
             \cup { MonitorUpdated(m) : m \in DeltaMonitors }
             \cup { MonitorRemoved(i) : i \in DeltaIds } :
          Receive(d.type, s, d, conn)
    /\ UNCHANGED nextId

PeerPing(s) ==
    /\ conn[s] = "active"
    /\ \E i \in PingIds : Receive("ping", s, Ping(i), conn)
    /\ UNCHANGED nextId

\* A peer that breaks the protocol: a frame that is not JSON, or a first frame
\* after client_hello that is not server_welcome.
PeerUnparsable(s) ==
    /\ proc = "web"
    /\ sockets[s] = "OPEN"
    /\ Commit(handleUnparsableMessage(World), conn)
    /\ evt' = Event("unparsable", s, NoMessage)
    /\ UNCHANGED << proc, nextId, hookVars, restVars >>

PeerUnexpected(s) ==
    /\ conn[s] = "welcome_due"
    /\ \E m \in { MonitorListSync(mons) : mons \in SyncLists }
             \cup { FlashCommand(targets) : targets \in TargetLists }
             \cup { ClearCommand(targets) : targets \in TargetLists } :
          Receive("unexpected_first", s, m, [conn EXCEPT ![s] = "violation"])
    /\ UNCHANGED nextId

\* ------------------------------------------------- useClientState
\* The hook's listeners; prev is the state value setState hands to the updater.

\* connection_established (serverAddress, serverName and disconnectReason are not
\* modelled: no listener reads them)
onConnectionEstablished(prev) == [prev EXCEPT !.isConnected = TRUE]

\* connection_lost
onConnectionLost(prev) == [prev EXCEPT !.isConnected = FALSE]

\* checkInitialConnection: the code after the awaited
\* invoke("get_client_connection_status"), given the Boolean it resolved to
checkInitialConnection(prev, isConnected) ==
    IF isConnected THEN [prev EXCEPT !.isConnected = TRUE] ELSE prev

\* kanpe_message_received: shouldDisplay
hookShouldDisplay(targetIds, stableMonitorIds) ==
    includes(targetIds, ALL) \/ someIncluded(stableMonitorIds, targetIds)

\* A flash filter that honours only the reserved id ALL
hookShouldFlashAllOnly(targetIds, stableMonitorIds) == includes(targetIds, ALL)

\* flash_received: shouldFlash
hookShouldFlash(targetIds, stableMonitorIds) ==
    includes(targetIds, ALL) \/ someIncluded(stableMonitorIds, targetIds)

\* clear_received: shouldClear
hookShouldClear(targetIds, stableMonitorIds) ==
    includes(targetIds, ALL) \/ someIncluded(stableMonitorIds, targetIds)

\* A listener that puts the new message in front of the list
onKanpeMessageReceivedPrepend(prev, message, stableMonitorIds) ==
    IF message.type = "kanpe_message"
       /\ hookShouldDisplay(message.target_monitor_ids, stableMonitorIds)
    THEN [prev EXCEPT !.messages = << message >> \o @,
                      !.flashTrigger = IF message.priority = "urgent" THEN @ + 1 ELSE @]
    ELSE prev

\* kanpe_message_received
onKanpeMessageReceived(prev, message, stableMonitorIds) ==
    IF message.type = "kanpe_message"
       /\ hookShouldDisplay(message.target_monitor_ids, stableMonitorIds)
    THEN [prev EXCEPT !.messages = Append(@, message),
                      !.flashTrigger = IF message.priority = "urgent" THEN @ + 1 ELSE @]
    ELSE prev

\* monitor_list_received
onMonitorListReceived(prev, payload) == [prev EXCEPT !.availableMonitors = payload]

\* monitor_added
onMonitorAdded(prev, payload) == [prev EXCEPT !.availableMonitors = Append(@, payload)]

\* monitor_removed
onMonitorRemoved(prev, monitor_id) ==
    [prev EXCEPT !.availableMonitors = filterOutId(@, monitor_id)]

\* monitor_updated
onMonitorUpdated(prev, payload) ==
    [prev EXCEPT !.availableMonitors = mapReplace(@, payload)]

\* flash_received
onFlashReceived(prev, targetIds, stableMonitorIds) ==
    IF hookShouldFlash(targetIds, stableMonitorIds)
    THEN [prev EXCEPT !.flashTrigger = @ + 1]
    ELSE prev

\* A clear listener that signals the clear but keeps the messages
onClearReceivedKeep(prev, targetIds, stableMonitorIds) ==
    IF hookShouldClear(targetIds, stableMonitorIds)
    THEN [prev EXCEPT !.clearTrigger = @ + 1]
    ELSE prev

\* clear_received
onClearReceived(prev, targetIds, stableMonitorIds) ==
    IF hookShouldClear(targetIds, stableMonitorIds)
    THEN [prev EXCEPT !.messages = <<>>, !.clearTrigger = @ + 1]
    ELSE prev

\* ClientView: const currentMessage = clientState.messages[clientState.messages.length - 1]
viewCurrentMessage(messages) ==
    IF Len(messages) = 0 THEN NoMessage ELSE messages[Len(messages)]

\* MonitorPopout: the currentMessage memo
popoutCurrentMessage(messages, monitorId) ==
    LET kept == SelectSeq(messages, LAMBDA msg :
                    /\ msg.type = "kanpe_message"
                    /\ \/ includes(msg.target_monitor_ids, ALL)
                       \/ includes(msg.target_monitor_ids, monitorId))
    IN IF Len(kept) = 0 THEN NoMessage ELSE kept[Len(kept)]

\* ClientView: toggleMonitorId
toggleMonitorId(prevIds, id) ==
    IF includes(prevIds, id) THEN SelectSeq(prevIds, LAMBDA i : i # id)
    ELSE Append(prevIds, id)

\* One event of the shell reaches the hook's listener.
\* MonitorPopout: the effect that follows currentMessage with the active tab
autoSwitchTab(prevTab, currentMessage) ==
    IF currentMessage # NoMessage
    THEN (IF prevTab \in {"new", "template"} THEN "reply" ELSE prevTab)
    ELSE (IF prevTab = "reply" THEN "new" ELSE prevTab)

\* MonitorPopout: handleTemplateClick's replyTo
replyTo(activeTab, currentMessage) ==
    IF activeTab = "new" THEN EmptyId
    ELSE IF currentMessage # NoMessage THEN currentMessage.id ELSE EmptyId

HookStep(kind, message, h) ==
    /\ proc \in {"view", "popout"}
    /\ hook' = h
    /\ props' = IF proc = "popout"
                   /\ popoutCurrentMessage(h.messages, props.monitorId)
                        # popoutCurrentMessage(hook.messages, props.monitorId)
                THEN [props EXCEPT !.activeTab =
                         autoSwitchTab(@, popoutCurrentMessage(h.messages, props.monitorId))]
                ELSE props
    /\ evt' = Event(kind, NoSocket, message)
    /\ tx' = <<>>
    /\ UNCHANGED << proc, state, elements, sockets, conn, restVars >>

ConnectionEstablished ==
    /\ HookStep("connection_established", NoMessage,
                [onConnectionEstablished(hook) EXCEPT !.status = TRUE])
    /\ UNCHANGED nextId

ConnectionLost ==
    /\ HookStep("connection_lost", NoMessage,
                [onConnectionLost(hook) EXCEPT !.status = FALSE])
    /\ UNCHANGED nextId

\* The backend handles get_client_connection_status: the reply carries a
\* snapshot of its connection status, and travels back on its own
StatusSnapshot ==
    /\ hook.query = "invoked"
    /\ HookStep("status_snapshot", NoMessage,
                [hook EXCEPT !.query = IF hook.status THEN "true" ELSE "false"])
    /\ UNCHANGED nextId

\* The awaited invoke of checkInitialConnection resolves
StatusResolves ==
    /\ hook.query \in {"true", "false"}
    /\ HookStep("status_resolved", NoMessage,
                [checkInitialConnection(hook, hook.query = "true")
                   EXCEPT !.query = "settled"])
    /\ UNCHANGED nextId

KanpeMessageReceived ==
    /\ nextId < MaxMsgs
    /\ nextId' = nextId + 1
    /\ \E targets \in TargetLists, prio \in Priorities :
          /\ prio = "urgent" => hook.flashTrigger < MaxTrigger
          /\ LET message == KanpeMessage(nextId + 1, targets, prio) IN
             HookStep("kanpe_message", message,
                      onKanpeMessageReceived(hook, message, props.displayMonitorIds))

MonitorListReceived ==
    /\ \E mons \in SyncLists :
          HookStep("monitor_list_sync", MonitorListSync(mons),
                   onMonitorListReceived(hook, mons))
    /\ UNCHANGED nextId

MonitorAddedReceived ==
    /\ Len(hook.availableMonitors) < MaxMonitors
    /\ \E m \in DeltaMonitors :
          HookStep("monitor_added", MonitorAdded(m), onMonitorAdded(hook, m))
    /\ UNCHANGED nextId

MonitorRemovedReceived ==
    /\ \E i \in DeltaIds :
          HookStep("monitor_removed", MonitorRemoved(i), onMonitorRemoved(hook, i))
    /\ UNCHANGED nextId

MonitorUpdatedReceived ==
    /\ \E m \in DeltaMonitors :
          HookStep("monitor_updated", MonitorUpdated(m), onMonitorUpdated(hook, m))
    /\ UNCHANGED nextId

FlashReceived ==
    /\ hook.flashTrigger < MaxTrigger
    /\ \E targets \in TargetLists :
          HookStep("flash_command", FlashCommand(targets),
                   onFlashReceived(hook, targets, props.displayMonitorIds))
    /\ UNCHANGED nextId

ClearReceived ==
    /\ hook.clearTrigger < MaxTrigger
    /\ \E targets \in TargetLists :
          HookStep("clear_command", ClearCommand(targets),
                   onClearReceived(hook, targets, props.displayMonitorIds))
    /\ UNCHANGED nextId

\* ClientView's monitor checkboxes, disabled while connected
ToggleMonitorId ==
    /\ proc = "view"
    /\ ~hook.isConnected
    /\ \E i \in 1..Len(hook.availableMonitors) :
          LET id == hook.availableMonitors[i].id IN
          /\ includes(props.displayMonitorIds, id) \/ Len(props.displayMonitorIds) < MaxSelected
          /\ props' = [props EXCEPT !.displayMonitorIds = toggleMonitorId(@, id)]
    /\ evt' = Event("toggle", NoSocket, NoMessage)
    /\ UNCHANGED << proc, hook, nextId, webVars, restVars >>

\* MonitorPopout: the feedback toggle, shown while the hook reports a connection
PopoutToggleFeedbackPanel ==
    /\ proc = "popout"
    /\ hook.isConnected
    /\ props' = [props EXCEPT !.showFeedbackPanel = ~@]
    /\ evt' = Event("feedback_toggle", NoSocket, NoMessage)
    /\ tx' = <<>>
    /\ UNCHANGED << proc, hook, nextId, state, elements, sockets, conn, restVars >>

\* MonitorPopout: the tab buttons; the reply tab is disabled without a message
SetActiveTab ==
    /\ proc = "popout"
    /\ hook.isConnected
    /\ props.showFeedbackPanel
    /\ \E tab \in {"reply", "new", "template"} :
          /\ tab = "reply" => popoutCurrentMessage(hook.messages, props.monitorId) # NoMessage
          /\ props' = [props EXCEPT !.activeTab = tab]
    /\ evt' = Event("set_tab", NoSocket, NoMessage)
    /\ tx' = <<>>
    /\ UNCHANGED << proc, hook, nextId, state, elements, sockets, conn, restVars >>

\* MonitorPopout: a template button of the reply tab or of the new tab; the
\* frame is what invoke("send_feedback") is given
TemplateClick ==
    /\ proc = "popout"
    /\ hook.isConnected
    /\ props.showFeedbackPanel
    /\ \/ props.activeTab = "new"
       \/ /\ props.activeTab = "reply"
          /\ popoutCurrentMessage(hook.messages, props.monitorId) # NoMessage
    /\ reqs < MaxReqs
    /\ reqs' = reqs + 1
    /\ \E ftype \in FeedbackTypes :
          tx' = << FeedbackFrame(NoSocket, reqs + 1, "Alice",
                      replyTo(props.activeTab,
                              popoutCurrentMessage(hook.messages, props.monitorId)),
                      ftype) >>
    /\ evt' = Event("feedback_" \o props.activeTab, NoSocket, NoMessage)
    /\ UNCHANGED << proc, hookVars, nextId, state, elements, sockets, conn, deck, dir >>

\* ------------------------------------------------- BiKanpeClient
\* The requests the plugin's actions pass to send()
RequestTypes == {"send_feedback", "react_to_latest", "get_state"}

\* The feedbackType values the settings schemas admit; Undefined is an absent field
SettingsFeedbackTypes == {"Ack", "Question", "Issue", "Info"}
Undefined == "undefined"

\* Settings of a key: some the schema rejects, and the ones it accepts
KeySettings ==
    { [valid |-> FALSE, content |-> "", feedbackType |-> Undefined] } \cup
    { [valid |-> TRUE, content |-> c, feedbackType |-> f] :
          c \in {"", "OK"}, f \in SettingsFeedbackTypes \cup {Undefined} }

\* A StreamDeckRequest; i tells the requests of a behaviour apart and is not sent
Request(type, i, content, ftype) ==
    [type |-> type, id |-> i, content |-> content, feedback_type |-> ftype]

\* The frame of a request on socket s
RequestFrame(s, request) ==
    [sock |-> s, type |-> request.type, id |-> request.id, client_name |-> "",
     display_monitor_ids |-> <<>>, feedback_type |-> request.feedback_type]

\* The request SendFeedbackAction.onKeyDown passes to send()
sendFeedbackRequest(settings, i) ==
    Request("send_feedback", i, settings.content,
            IF settings.feedbackType = Undefined THEN "Info" ELSE settings.feedbackType)

\* The request ReactToLatestAction.onKeyDown passes to send()
reactToLatestRequest(settings, i) ==
    Request("react_to_latest", i, "",
            IF settings.feedbackType = Undefined THEN "Ack" ELSE settings.feedbackType)

\* The request of the state polling
getStateRequest(i) == Request("get_state", i, "", Undefined)

\* The request a key's action makes
keyRequest(action, settings, i) ==
    IF action = "send_feedback" THEN sendFeedbackRequest(settings, i)
                                ELSE reactToLatestRequest(settings, i)

\* Every request the plugin can pass to send()
PluginRequests(i) ==
    { keyRequest(a, st, i) : a \in {"send_feedback", "react_to_latest"},
                             st \in { k \in KeySettings : k.valid /\ k.content # "" } }
    \cup { getStateRequest(i) }

\* The client's world as one value: its fields, the sockets and the frames written
DeckWorld == [deck |-> deck, sockets |-> sockets, tx |-> <<>>]

\* isConnected
isConnected(w) == w.deck.ws # NoSocket /\ w.sockets[w.deck.ws] = "OPEN"

\* connect: the new socket s replaces this.ws; a socket held before is not closed
deckConnect(w, serverAddress, s) ==
    [w EXCEPT !.deck.serverAddress = serverAddress,
              !.deck.ws = s,
              !.sockets[s] = "CONNECTING"]

\* disconnect
deckDisconnect(w) ==
    LET w1 == [w EXCEPT !.deck.reconnectTimer = FALSE,
                        !.deck.timers = IF w.deck.reconnectTimer THEN @ - 1 ELSE @] IN
    IF w1.deck.ws # NoSocket
    THEN [w1 EXCEPT !.sockets[w1.deck.ws] =
                        IF @ \in {"CONNECTING", "OPEN"} THEN "CLOSING" ELSE @,
                    !.deck.ws = NoSocket]
    ELSE w1

\* A send that writes the request whatever the socket's state
deckSendUnguarded(w, request) ==
    [w EXCEPT !.tx = Append(@, RequestFrame(w.deck.ws, request)),
              !.deck.sendResult = "resolved"]

\* send: rejects when the socket is absent or not open, else writes the request
deckSend(w, request) ==
    IF ~isConnected(w)
    THEN [w EXCEPT !.deck.sendResult = "rejected"]
    ELSE [w EXCEPT !.tx = Append(@, RequestFrame(w.deck.ws, request)),
                   !.deck.sendResult = "resolved"]

\* An onopen that replays the request that was rejected last
deckOnOpenReplay(w) ==
    IF w.deck.sendResult = "rejected"
    THEN [w EXCEPT !.tx = Append(@, RequestFrame(w.deck.ws,
                                                 Request("send_feedback", reqs, "OK", "Info")))]
    ELSE w

\* ws.onopen: notifyConnectionState(true) and resolve(); no field changes
deckOnOpen(w) == w

\* A scheduleReconnect that arms a timeout whether or not one is pending
scheduleReconnectAlways(w) ==
    [w EXCEPT !.deck.reconnectTimer = TRUE, !.deck.timers = @ + 1]

\* scheduleReconnect: deck.timers counts the timeouts that are armed
scheduleReconnect(w) ==
    IF w.deck.reconnectTimer THEN w
    ELSE [w EXCEPT !.deck.reconnectTimer = TRUE, !.deck.timers = @ + 1]

\* ws.onclose: notifyConnectionState(false), then scheduleReconnect
deckOnClose(w) == scheduleReconnect(w)

\* the callback of scheduleReconnect's setTimeout; s is the socket connect would create
reconnectTimeout(w, s) ==
    LET w1 == [w EXCEPT !.deck.reconnectTimer = FALSE, !.deck.timers = @ - 1] IN
    IF ~isConnected(w1) /\ w1.deck.serverAddress # ""
    THEN deckConnect(w1, w1.deck.serverAddress, s)
    ELSE w1

\* ------------------------------------------------- the plugin's actions
\* A key press: its action and settings, the socket whose connect() it awaits,
\* whether showOk or showAlert was called, and whether its request was written.
Key(phase, action, settings, s, shown, written) ==
    [phase |-> phase, action |-> action, settings |-> settings, sock |-> s,
     shown |-> shown, written |-> written]

NoKey == Key("idle", "", [valid |-> FALSE, content |-> "", feedbackType |-> Undefined],
             NoSocket, "none", FALSE)

\* ReactToLatestAction.initializeClient after its connect: the message handler
\* is registered and the polling interval started
registerReact(w) == [w EXCEPT !.deck.reactHandler = TRUE]

\* onKeyDown from its send on: showOk after a resolved send (ReactToLatestAction
\* then clears hasNewMessage and calls setState(0)), showAlert after a rejected one
keySend(w, i) ==
    LET k == w.deck.key
        w1 == deckSend(w, keyRequest(k.action, k.settings, i)) IN
    IF w1.deck.sendResult = "resolved"
    THEN [w1 EXCEPT !.deck.key.phase = "done", !.deck.key.shown = "ok",
                    !.deck.key.written = TRUE,
                    !.deck.hasNewMessage = IF k.action = "react_to_latest" THEN FALSE ELSE @,
                    !.deck.buttonState = IF k.action = "react_to_latest" THEN 0 ELSE @]
    ELSE [w1 EXCEPT !.deck.key.phase = "done", !.deck.key.shown = "alert"]

\* onKeyDown up to its first await that waits: s is the socket connect would create
onKeyDown(w, action, settings, s, i) ==
    LET w0 == [w EXCEPT !.deck.key = Key("running", action, settings, NoSocket, "none", FALSE)] IN
    IF ~settings.valid
    THEN [w0 EXCEPT !.deck.key.phase = "done", !.deck.key.shown = "alert"]
    ELSE IF action = "send_feedback" /\ settings.content = ""
    THEN [w0 EXCEPT !.deck.key.phase = "done", !.deck.key.shown = "alert"]
    ELSE IF ~isConnected(w0)
    THEN [deckConnect(w0, "localhost:9877", s) EXCEPT !.deck.key.phase = "connecting",
                                                      !.deck.key.sock = s,
                                                      !.deck.idle = FALSE]
    ELSE keySend(w0, i)

\* Whether onKeyDown would call connect
keyDials(w, action, settings) ==
    /\ settings.valid
    /\ ~(action = "send_feedback" /\ settings.content = "")
    /\ ~isConnected(w)

\* ReactToLatestAction.onWillAppear: initializeClient, awaiting connect on s if not connected
reactWillAppear(w, s) ==
    IF ~isConnected(w)
    THEN [deckConnect(w, "localhost:9877", s) EXCEPT !.deck.appear = s, !.deck.idle = FALSE]
    ELSE registerReact(w)

\* The promise of connect() on socket s resolves: the callers awaiting it go on
connectResolves(w, s, i) ==
    LET w1 == IF w.deck.appear = s
              THEN registerReact([w EXCEPT !.deck.appear = NoSocket]) ELSE w
        w2 == IF w1.deck.key.phase = "connecting" /\ w1.deck.key.sock = s
              THEN keySend(IF w1.deck.key.action = "react_to_latest"
                           THEN registerReact(w1) ELSE w1, i)
              ELSE w1
    IN w2

\* The promise of connect() on socket s rejects: initializeClient rethrows, and
\* onKeyDown, which awaits it outside its try, ends there
connectRejects(w, s) ==
    LET w1 == IF w.deck.appear = s THEN [w EXCEPT !.deck.appear = NoSocket] ELSE w IN
    IF w1.deck.key.phase = "connecting" /\ w1.deck.key.sock = s
    THEN [w1 EXCEPT !.deck.key.phase = "done"]
    ELSE w1

\* The message handler ReactToLatestAction registers; latest is the id of
\* latest_message, EmptyId when the update has none
onStateUpdate(w, latest) ==
    IF w.deck.reactHandler /\ latest # EmptyId
    THEN [w EXCEPT !.deck.hasNewMessage = TRUE]
    ELSE w

\* The ids a state_update may report as the latest message
LatestIds == {EmptyId, 1, 2}

\* A socket the process has not created yet
FreshSocket(s) == sockets[s] = "NONE" /\ \A r \in SocketIds : r < s => sockets[r] # "NONE"

DeckCommit(w) ==
    /\ deck' = w.deck
    /\ sockets' = w.sockets
    /\ tx' = w.tx
    /\ UNCHANGED << proc, state, elements, conn, nextId, hookVars, dir >>

\* A plugin action connects: every caller tests isConnected() first
DeckConnect(s) ==
    /\ proc = "deck"
    /\ FreshSocket(s)
    /\ ~isConnected(DeckWorld)
    /\ DeckCommit([deckConnect(DeckWorld, "localhost:9877", s) EXCEPT !.deck.idle = FALSE])
    /\ evt' = Event("deck_connect", s, NoMessage)
    /\ UNCHANGED reqs

DeckDisconnect ==
    /\ proc = "deck"
    /\ DeckCommit([deckDisconnect(DeckWorld) EXCEPT !.deck.idle = TRUE])
    /\ evt' = Event("deck_disconnect", deck.ws, NoMessage)
    /\ UNCHANGED reqs

DeckSend ==
    /\ proc = "deck"
    /\ reqs < MaxReqs
    /\ reqs' = reqs + 1
    /\ \E request \in PluginRequests(reqs + 1) :
          /\ DeckCommit(deckSend(DeckWorld, request))
          /\ evt' = Event("deck_send", deck.ws, request)

DeckSocketOpen(s) ==
    /\ proc = "deck"
    /\ sockets[s] = "CONNECTING"
    /\ DeckCommit(connectResolves(deckOnOpen([DeckWorld EXCEPT !.sockets[s] = "OPEN"]), s, reqs))
    /\ evt' = Event("open", s, NoMessage)
    /\ UNCHANGED reqs

\* The socket's close event, after a failed dial, a close() or a loss of the peer
DeckSocketClose(s) ==
    /\ proc = "deck"
    /\ sockets[s] \in {"CONNECTING", "OPEN", "CLOSING"}
    /\ DeckCommit(connectRejects(deckOnClose([DeckWorld EXCEPT !.sockets[s] = "CLOSED"]), s))
    /\ evt' = Event("close", s, NoMessage)
    /\ UNCHANGED reqs

\* s is the socket connect would create, or the client's own when it is connected
ReconnectTimeout(s) ==
    /\ proc = "deck"
    /\ deck.timers > 0
    /\ FreshSocket(s) \/ (isConnected(DeckWorld) /\ s = deck.ws)
    /\ DeckCommit(reconnectTimeout(DeckWorld, s))
    /\ evt' = Event("reconnect_timeout", deck'.ws, NoMessage)
    /\ UNCHANGED reqs

\* ------------------------------------------- the plugin's key events
KeyDown(s) ==
    /\ proc = "deck"
    /\ deck.key.phase # "connecting"
    /\ reqs < MaxReqs
    /\ reqs' = reqs + 1
    /\ \E action \in {"send_feedback", "react_to_latest"}, settings \in KeySettings :
          /\ IF keyDials(DeckWorld, action, settings) THEN FreshSocket(s) ELSE s = 1
          /\ DeckCommit(onKeyDown(DeckWorld, action, settings, s, reqs + 1))
          /\ evt' = Event("key_down", deck'.ws, NoMessage)

ReactWillAppear(s) ==
    /\ proc = "deck"
    /\ deck.appear = NoSocket
    /\ IF isConnected(DeckWorld) THEN s = deck.ws ELSE FreshSocket(s)
    /\ DeckCommit(reactWillAppear(DeckWorld, s))
    /\ evt' = Event("will_appear", deck'.ws, NoMessage)
    /\ UNCHANGED reqs

\* A state_update arrives on an open socket.
StateUpdate(s) ==
    /\ proc = "deck"
    /\ sockets[s] = "OPEN"
    /\ \E latest \in LatestIds :
          /\ DeckCommit([onStateUpdate(DeckWorld, latest)
                            EXCEPT !.deck.latestSeen = IF latest # EmptyId THEN latest ELSE @])
          /\ evt' = Event("state_update", s, KanpeMessage(latest, <<>>, ""))
    /\ UNCHANGED reqs

\* The polling interval fires.
PollState ==
    /\ proc = "deck"
    /\ deck.reactHandler
    /\ isConnected(DeckWorld)
    /\ reqs < MaxReqs
    /\ reqs' = reqs + 1
    /\ DeckCommit(deckSend(DeckWorld, getStateRequest(reqs + 1)))
    /\ evt' = Event("poll_state", deck.ws, NoMessage)

\* ------------------------------------------------------- specification
\* The page after load. The monitor list is the placeholder of requestMonitorList
\* or the empty list of init, whichever ran last; the display screen's inline
\* style is whatever the markup gave it ("none", or unset and hidden by the
\* stylesheet).
InitWeb ==
    /\ state \in { [ws |-> NoSocket, connected |-> FALSE, clientName |-> "",
                    selectedMonitorIds |-> <<>>, availableMonitors |-> a,
                    currentMessage |-> NoMessage]
                   : a \in IF proc = "web" THEN {<<>>, PlaceholderMonitors}
                                           ELSE {PlaceholderMonitors} }
    /\ elements \in { [clientNameInput |-> n,
                       monitorList |-> [ i \in 1..Len(PlaceholderMonitors) |->
                                            PlaceholderMonitors[i].id ],
                       connectBtnDisabled |-> FALSE,
                       connectionScreen |-> "unset", displayScreen |-> d,
                       messageContent |-> "unset", flashAnimation |-> FALSE,
                       feedbackPanelActive |-> FALSE,
                       replyButtons |-> FALSE, newButtons |-> FALSE]
                      : n \in IF proc = "web" THEN {"", "Alice"} ELSE {"Alice"},
                        d \in IF proc = "web" THEN {"unset", "none"} ELSE {"none"} }
    /\ sockets = [ s \in SocketIds |-> "NONE" ]
    /\ conn = [ s \in SocketIds |-> "await_hello" ]

\* The hook's initial state value. query is the position of the mount
\* effect's get_client_connection_status call (invoked, answered with a
\* snapshot, settled) and status the backend's connection status: it changes
\* with the connection events the backend emits.
Mounted(query, status) ==
    [isConnected |-> FALSE,
     messages |-> <<>>, availableMonitors |-> <<>>,
     flashTrigger |-> 0, clearTrigger |-> 0,
     query |-> query, status |-> status]

InitProps ==
    /\ props \in CASE proc = "view" ->
                       { [displayMonitorIds |-> d, monitorId |-> "",
                          showFeedbackPanel |-> FALSE, activeTab |-> "new"]
                         : d \in {<<>>, <<"A">>} }
                  [] proc = "popout" ->
                       { [displayMonitorIds |-> <<m>>, monitorId |-> m,
                          showFeedbackPanel |-> FALSE, activeTab |-> "new"]
                         : m \in {"A", "B"} }
                  [] OTHER -> { [displayMonitorIds |-> <<>>, monitorId |-> "",
                                 showFeedbackPanel |-> FALSE, activeTab |-> "new"] }

\* A window whose initial status query has settled on a disconnected backend
InitHook ==
    /\ hook = Mounted("settled", FALSE)
    /\ InitProps

\* ------------------------------------------------------------ the director
\* ServerView with useServerState. The Tauri backend is not part of the
\* sources: its commands follow the registry of the specification (add mints
\* an id and emits monitor_added, remove of a present id emits
\* monitor_removed, a stopped server has no monitors). Events travel to the
\* window through a queue, and the code after an awaited invoke runs as a
\* step of its own.

\* Texts the director may type into the message and monitor-name inputs.
Contents == {"", " ", "Go"}

\* String.prototype.trim on those texts
trim(str) == IF str = " " THEN "" ELSE str

\* Ids the registry mints, in the order it mints them; none is minted twice.
MintedIds == << "A", "B" >>

NoError == "null"

\* The port ServerView starts the server on, and the hook's port while none is known
DefaultPort == 9876
NoPort == 0

\* An event with its payload: the monitor, the feedback, the port or the client it carries
TauriEvent(name, mon, fb) ==
    [name |-> name, monitor |-> mon, feedback |-> fb, port |-> NoPort, client_id |-> 0]

ClientEvent(name, c) == [TauriEvent(name, Mon("", ""), 0) EXCEPT !.client_id = c]

InvokeCall(cmd, targets, name) == [cmd |-> cmd, targetMonitorIds |-> targets, name |-> name]

\* The awaited tail of a handler: which handler, whether its invoke resolved, its argument.
Continuation(of, ok, mid) == [of |-> of, ok |-> ok, monitorId |-> mid]

\* useServerState: server_started listener
onServerStarted(d, port) == [d EXCEPT !.isRunning = TRUE, !.port = port]

\* A server_stopped listener that keeps the lists
onServerStoppedKeepLists(d) == [d EXCEPT !.isRunning = FALSE, !.port = NoPort]

\* useServerState: server_stopped listener
onServerStopped(d) ==
    [d EXCEPT !.isRunning = FALSE, !.port = NoPort, !.clients = <<>>,
              !.feedbackMessages = <<>>, !.monitors = <<>>]

\* useServerState: client_connected listener
onClientConnected(d, c) == [d EXCEPT !.clients = Append(@, c)]

\* useServerState: client_disconnected listener
onClientDisconnected(d, c) == [d EXCEPT !.clients = SelectSeq(@, LAMBDA x : x # c)]

\* A feedback_received listener that puts the new feedback first
onFeedbackReceivedPrepend(d, fb) == [d EXCEPT !.feedbackMessages = << fb >> \o @]

\* useServerState: feedback_received listener
onFeedbackReceived(d, fb) == [d EXCEPT !.feedbackMessages = Append(@, fb)]

\* useServerState: monitor_added listener
serverOnMonitorAdded(d, m) == [d EXCEPT !.monitors = Append(@, m)]

\* useServerState: monitor_removed listener
serverOnMonitorRemoved(d, mid) == [d EXCEPT !.monitors = filterOutId(@, mid)]

\* The listener of one event
listener(d, e) ==
    CASE e.name = "server_started" -> onServerStarted(d, e.port)
      [] e.name = "client_connected" -> onClientConnected(d, e.client_id)
      [] e.name = "client_disconnected" -> onClientDisconnected(d, e.client_id)
      [] e.name = "server_stopped" -> onServerStopped(d)
      [] e.name = "feedback_received" -> onFeedbackReceived(d, e.feedback)
      [] e.name = "monitor_added" -> serverOnMonitorAdded(d, e.monitor)
      [] e.name = "monitor_removed" -> serverOnMonitorRemoved(d, e.monitor.id)

\* The backend's side of an invoke: d.serverUp, d.registry and d.minted are
\* the backend's, d.events the events on their way to the window.
backend(d, call) ==
    CASE call.cmd = "start_server" ->
            IF d.serverUp THEN d
            ELSE [d EXCEPT !.serverUp = TRUE,
                           !.events = Append(@, [TauriEvent("server_started", Mon("", ""), 0)
                                                    EXCEPT !.port = DefaultPort])]
      [] call.cmd = "stop_server" ->
            IF ~d.serverUp THEN d
            ELSE [d EXCEPT !.serverUp = FALSE, !.registry = <<>>, !.sessions = {},
                           !.events = Append(@, TauriEvent("server_stopped", Mon("", ""), 0))]
      [] call.cmd = "add_virtual_monitor" ->
            IF ~d.serverUp \/ call.name = "" \/ d.minted = Len(MintedIds) THEN d
            ELSE LET m == Mon(MintedIds[d.minted + 1], call.name) IN
                 [d EXCEPT !.minted = @ + 1, !.registry = Append(@, m),
                           !.events = Append(@, TauriEvent("monitor_added", m, 0))]
      [] call.cmd = "remove_virtual_monitor" ->
            IF \E i \in 1..Len(d.registry) : d.registry[i].id = call.name
            THEN [d EXCEPT !.registry = filterOutId(@, call.name),
                           !.events = Append(@, TauriEvent("monitor_removed",
                                                          Mon(call.name, ""), 0))]
            ELSE d
      [] OTHER -> d

\* Whether the backend resolves the invoke (else it rejects and the handler's catch runs)
resolves(d, call) ==
    CASE call.cmd = "start_server" -> ~d.serverUp
      [] call.cmd = "stop_server" -> d.serverUp
      [] call.cmd = "add_virtual_monitor" ->
            d.serverUp /\ call.name # "" /\ d.minted < Len(MintedIds)
      [] call.cmd = "remove_virtual_monitor" -> d.serverUp
      [] OTHER -> d.serverUp

\* invoke(...) up to the await: the call is made, the backend acts, the tail waits
invoke(d, call, of, mid) ==
    [backend(d, call) EXCEPT !.invoked = Append(@, call),
                             !.pending = Append(@, Continuation(of, resolves(d, call), mid))]

\* handleStartServer
handleStartServer(d) ==
    invoke([d EXCEPT !.error = NoError], InvokeCall("start_server", <<>>, ""), "start", "")

\* handleStopServer
handleStopServer(d) ==
    invoke([d EXCEPT !.error = NoError], InvokeCall("stop_server", <<>>, ""), "stop", "")

\* handleSendMessage
handleSendMessage(d) ==
    IF trim(d.messageContent) = ""
    THEN [d EXCEPT !.error = "Message content cannot be empty"]
    ELSE invoke([d EXCEPT !.error = NoError, !.isSendingMessage = TRUE],
                InvokeCall("send_kanpe_message", d.targetMonitorIds, d.messageContent),
                "send", "")

\* A toggleMonitorId that keeps ALL next to a specific monitor
serverToggleMonitorIdKeepAll(d, id) ==
    IF id = ALL
    THEN [d EXCEPT !.targetMonitorIds = << ALL >>]
    ELSE [d EXCEPT !.targetMonitorIds =
                       IF includes(@, id)
                       THEN SelectSeq(@, LAMBDA i : i # id)
                       ELSE Append(@, id)]

\* ServerView's toggleMonitorId
serverToggleMonitorId(d, id) ==
    IF id = ALL
    THEN [d EXCEPT !.targetMonitorIds = << ALL >>]
    ELSE LET newIds == SelectSeq(d.targetMonitorIds, LAMBDA i : i # ALL) IN
         [d EXCEPT !.targetMonitorIds =
                       IF includes(newIds, id)
                       THEN SelectSeq(newIds, LAMBDA i : i # id)
                       ELSE Append(newIds, id)]

\* A handleAddMonitor that does not look at the name
handleAddMonitorUnchecked(d) ==
    invoke([d EXCEPT !.error = NoError],
           InvokeCall("add_virtual_monitor", <<>>, d.newMonitorName), "add", "")

\* handleAddMonitor
handleAddMonitor(d) ==
    IF trim(d.newMonitorName) = ""
    THEN [d EXCEPT !.error = "Monitor name cannot be empty"]
    ELSE invoke([d EXCEPT !.error = NoError],
                InvokeCall("add_virtual_monitor", <<>>, d.newMonitorName), "add", "")

\* handleRemoveMonitor
handleRemoveMonitor(d, monitorId) ==
    invoke([d EXCEPT !.error = NoError],
           InvokeCall("remove_virtual_monitor", <<>>, monitorId), "remove", monitorId)

\* The code after the await of a handler, or its catch and finally
continue(d, c) ==
    IF ~c.ok
    THEN [d EXCEPT !.error = "rejected",
                   !.isSendingMessage = IF c.of = "send" THEN FALSE ELSE @]
    ELSE CASE c.of = "send" -> [d EXCEPT !.messageContent = "", !.isSendingMessage = FALSE]
           [] c.of = "add" -> [d EXCEPT !.newMonitorName = ""]
           [] c.of = "remove" ->
                 [d EXCEPT !.targetMonitorIds = SelectSeq(@, LAMBDA i : i # c.monitorId)]
           [] OTHER -> d

\* A send button that is disabled only for an empty text or a send in flight
sendDisabledIgnoringTargets(d) ==
    trim(d.messageContent) = "" \/ d.isSendingMessage

\* The send button's disabled attribute
sendDisabled(d) ==
    trim(d.messageContent) = "" \/ Len(d.targetMonitorIds) = 0 \/ d.isSendingMessage

\* One step of the director's window: the handler's result with a fresh record of
\* the invokes the step made.
Fresh == [dir EXCEPT !.invoked = <<>>]

DirectorStep(kind, d) ==
    /\ proc = "server"
    /\ dir' = d
    /\ evt' = Event(kind, NoSocket, NoMessage)
    /\ tx' = <<>>
    /\ UNCHANGED << proc, state, elements, sockets, conn, nextId, hook, props, deck, reqs >>

ClickStartServer ==
    /\ ~dir.isRunning
    /\ Len(dir.pending) < MaxPending
    /\ DirectorStep("start_server", handleStartServer(Fresh))

ClickStopServer ==
    /\ dir.isRunning
    /\ Len(dir.pending) < MaxPending
    /\ DirectorStep("stop_server", handleStopServer(Fresh))

TypeMessageContent ==
    /\ dir.isRunning
    /\ \E c \in Contents : DirectorStep("type_message", [Fresh EXCEPT !.messageContent = c])

TypeMonitorName ==
    /\ dir.isRunning
    /\ \E c \in Contents : DirectorStep("type_name", [Fresh EXCEPT !.newMonitorName = c])

ClickTarget ==
    /\ dir.isRunning
    /\ \E id \in {ALL} \cup { dir.monitors[i].id : i \in 1..Len(dir.monitors) } :
          DirectorStep("toggle_" \o id, serverToggleMonitorId(Fresh, id))

ClickSendMessage ==
    /\ dir.isRunning
    /\ ~sendDisabled(dir)
    /\ Len(dir.pending) < MaxPending
    /\ DirectorStep("send_message", handleSendMessage(Fresh))

ClickAddMonitor ==
    /\ dir.isRunning
    /\ Len(dir.pending) < MaxPending
    /\ DirectorStep("add_monitor", handleAddMonitor(Fresh))

ClickRemoveMonitor ==
    /\ dir.isRunning
    /\ Len(dir.pending) < MaxPending
    /\ \E i \in 1..Len(dir.monitors) :
          DirectorStep("remove_monitor", handleRemoveMonitor(Fresh, dir.monitors[i].id))

\* The awaited invoke settles and the rest of its handler runs.
InvokeSettles ==
    /\ dir.pending # <<>>
    /\ DirectorStep("settled_" \o Head(dir.pending).of,
                    continue([Fresh EXCEPT !.pending = Tail(@)], Head(dir.pending)))

\* The window receives the oldest event on its way.
EventDelivered ==
    /\ dir.events # <<>>
    /\ DirectorStep(Head(dir.events).name,
                    listener([Fresh EXCEPT !.events = Tail(@)], Head(dir.events)))

\* The server receives a feedback_message from a caster and tells the window.
FeedbackArrives ==
    /\ dir.serverUp
    /\ dir.received < MaxFeedback
    /\ DirectorStep("feedback_arrives",
                    [Fresh EXCEPT !.received = @ + 1,
                                  !.events = Append(@, TauriEvent("feedback_received",
                                                                 Mon("", ""), dir.received + 1))])

\* The server accepts a caster and tells the window.
ClientConnects ==
    /\ dir.serverUp
    /\ dir.accepted < MaxClients
    /\ DirectorStep("client_connects",
                    [Fresh EXCEPT !.accepted = @ + 1,
                                  !.sessions = @ \cup {dir.accepted + 1},
                                  !.events = Append(@, ClientEvent("client_connected",
                                                                   dir.accepted + 1))])

\* A caster's connection ends and the server tells the window.
ClientDisconnects ==
    /\ dir.serverUp
    /\ \E c \in dir.sessions :
          DirectorStep("client_disconnects",
                       [Fresh EXCEPT !.sessions = @ \ {c},
                                     !.events = Append(@, ClientEvent("client_disconnected", c))])

InitDeck ==
    deck = [ws |-> NoSocket, serverAddress |-> "", reconnectTimer |-> FALSE, timers |-> 0,
            sendResult |-> "none", idle |-> TRUE,
            key |-> NoKey, appear |-> NoSocket, reactHandler |-> FALSE,
            hasNewMessage |-> FALSE, buttonState |-> 0, latestSeen |-> EmptyId]

InitDirector ==
    dir = [isRunning |-> FALSE, port |-> NoPort, clients |-> <<>>,
           feedbackMessages |-> <<>>, monitors |-> <<>>,
           targetMonitorIds |-> << ALL >>, messageContent |-> "", newMonitorName |-> "",
           error |-> NoError, isSendingMessage |-> FALSE,
           pending |-> <<>>, invoked |-> <<>>,
           serverUp |-> FALSE, registry |-> <<>>, minted |-> 0, received |-> 0,
           sessions |-> {}, accepted |-> 0,
           events |-> <<>>]

Init ==
    /\ proc \in {"web", "view", "popout"}
    /\ InitWeb
    /\ InitHook
    /\ InitDeck
    /\ InitDirector
    /\ nextId = 0
    /\ reqs = 0
    /\ evt = Event("init", NoSocket, NoMessage)
    /\ tx = <<>>

NextWeb ==
    \/ ClickConnect
    \/ ClickMonitorOption
    \/ ClickDisconnect
    \/ FlashTimeout
    \/ \E s \in SocketIds : SocketOpen(s)
    \/ \E s \in SocketIds : SocketFail(s)
    \/ \E s \in SocketIds : SocketClose(s)
    \/ \E s \in SocketIds : PeerWelcome(s)
    \/ \E s \in SocketIds : PeerSync(s)
    \/ \E s \in SocketIds : PeerKanpe(s)
    \/ \E s \in SocketIds : PeerFlash(s)
    \/ \E s \in SocketIds : PeerClear(s)
    \/ \E s \in SocketIds : PeerDelta(s)
    \/ \E s \in SocketIds : PeerPing(s)

NextHook ==
    \/ ConnectionEstablished
    \/ ConnectionLost
    \/ KanpeMessageReceived
    \/ MonitorListReceived
    \/ MonitorAddedReceived
    \/ MonitorRemovedReceived
    \/ MonitorUpdatedReceived
    \/ FlashReceived
    \/ ClearReceived
    \/ ToggleMonitorId

Next == NextWeb \/ NextHook

Spec == Init /\ [][Next]_vars

\* A caster window from its mount on: the status query of the mount effect is
\* in flight while the backend, connected or not, emits connection events.
InitMount ==
    /\ proc \in {"view", "popout"}
    /\ InitWeb
    /\ hook \in { Mounted("invoked", status) : status \in BOOLEAN }
    /\ InitProps
    /\ InitDeck
    /\ InitDirector
    /\ nextId = 0
    /\ reqs = 0
    /\ evt = Event("init", NoSocket, NoMessage)
    /\ tx = <<>>

NextMount ==
    \/ StatusSnapshot
    \/ StatusResolves
    \/ ConnectionEstablished
    \/ ConnectionLost
    \/ KanpeMessageReceived
    \/ MonitorListReceived

SpecMount == InitMount /\ [][NextMount]_vars

\* The web caster and the popout with their feedback controls: connection
\* life cycle, kanpe and clear directives, and the feedback buttons.
InitFeedback == Init /\ proc \in {"web", "popout"}

NextFeedback ==
    \/ ClickConnect
    \/ ClickMonitorOption
    \/ ClickDisconnect
    \/ \E s \in SocketIds : SocketOpen(s)
    \/ \E s \in SocketIds : SocketFail(s)
    \/ \E s \in SocketIds : SocketClose(s)
    \/ \E s \in SocketIds : PeerWelcome(s)
    \/ \E s \in SocketIds : PeerSync(s)
    \/ \E s \in SocketIds : PeerKanpe(s)
    \/ \E s \in SocketIds : PeerClear(s)
    \/ ClickFeedbackToggle
    \/ ClickFeedbackButton
    \/ ConnectionEstablished
    \/ ConnectionLost
    \/ KanpeMessageReceived
    \/ ClearReceived
    \/ PopoutToggleFeedbackPanel
    \/ SetActiveTab
    \/ TemplateClick

\* The StreamDeck plugin's client.
InitClient == proc = "deck" /\ InitWeb /\ InitHook /\ InitDeck /\ InitDirector
                /\ nextId = 0 /\ reqs = 0 /\ tx = <<>>
                /\ evt = Event("init", NoSocket, NoMessage)

NextDeck ==
    \/ \E s \in SocketIds : DeckConnect(s)
    \/ DeckDisconnect
    \/ DeckSend
    \/ \E s \in SocketIds : DeckSocketOpen(s)
    \/ \E s \in SocketIds : DeckSocketClose(s)
    \/ \E s \in SocketIds : ReconnectTimeout(s)

SpecDeck == InitClient /\ [][NextDeck]_vars

\* The plugin: both actions on the keys of a StreamDeck, sharing the client.
NextPlugin ==
    \/ \E s \in SocketIds : DeckConnect(s)
    \/ \E s \in SocketIds : ReactWillAppear(s)
    \/ \E s \in SocketIds : KeyDown(s)
    \/ \E s \in SocketIds : DeckSocketOpen(s)
    \/ \E s \in SocketIds : DeckSocketClose(s)
    \/ \E s \in SocketIds : ReconnectTimeout(s)
    \/ \E s \in SocketIds : StateUpdate(s)
    \/ PollState

SpecPlugin == InitClient /\ [][NextPlugin]_vars

\* Every program that sends feedback or control requests.
InitRequests == InitFeedback \/ InitClient

NextRequests == NextFeedback \/ NextDeck

SpecRequests == InitRequests /\ [][NextRequests]_vars

\* The director's window.
InitServer == proc = "server" /\ InitWeb /\ InitHook /\ InitDeck /\ InitDirector
                /\ nextId = 0 /\ reqs = 0 /\ tx = <<>>
                /\ evt = Event("init", NoSocket, NoMessage)

NextDirector ==
    \/ ClickStartServer
    \/ ClickStopServer
    \/ TypeMessageContent
    \/ TypeMonitorName
    \/ ClickTarget
    \/ ClickSendMessage
    \/ ClickAddMonitor
    \/ ClickRemoveMonitor
    \/ InvokeSettles
    \/ EventDelivered
    \/ FeedbackArrives

SpecDirector == InitServer /\ [][NextDirector]_vars

\* The director's window over the sessions of a server: start and stop,
\* casters coming and going, monitors added, feedback arriving.
NextSession ==
    \/ ClickStartServer
    \/ ClickStopServer
    \/ TypeMonitorName
    \/ ClickAddMonitor
    \/ InvokeSettles
    \/ EventDelivered
    \/ FeedbackArrives
    \/ ClientConnects
    \/ ClientDisconnects

SpecSession == InitServer /\ [][NextSession]_vars

\* The web caster facing a peer that may break the protocol.
InitFaulty == Init /\ proc = "web"

NextFaulty ==
    \/ NextWeb
    \/ \E s \in SocketIds : PeerUnparsable(s)
    \/ \E s \in SocketIds : PeerUnexpected(s)

SpecFaulty == InitFaulty /\ [][NextFaulty]_vars
\* ------------------------------------------------------- observations
\* The message a caster shows
Shown ==
    CASE proc = "web" -> state.currentMessage
      [] proc = "view" -> viewCurrentMessage(hook.messages)
      [] OTHER -> popoutCurrentMessage(hook.messages, props.monitorId)

\* The display monitor ids a caster filters with
DisplayIds == IF proc = "web" THEN state.selectedMonitorIds ELSE props.displayMonitorIds

\* A caster's mirror of the virtual-monitor list
Mirror == IF proc = "web" THEN state.availableMonitors ELSE hook.availableMonitors

\* T contains ALL, or T and D share an id
Passes(T, D) == ALL \in Range(T) \/ Range(T) \cap Range(D) # {}

\* Everything a directive can change in what a caster displays
Displayed ==
    << state.currentMessage, elements.messageContent, elements.flashAnimation,
       hook.messages, hook.flashTrigger, hook.clearTrigger >>

StrictlyIncreasingIds(messages) ==
    \A i, j \in 1..Len(messages) : i < j => messages[i].id < messages[j].id

\* ------------------------------------------------------- properties

\* C1: a caster with display ids D that receives a kanpe message with targets T
\* makes it the shown message if and only if T contains ALL or shares an id
\* with D; otherwise what it displays is left unchanged.
C1_DisplayFilter ==
    [][ nextId' = nextId + 1 =>
          IF Passes(evt'.msg.target_monitor_ids, DisplayIds)
          THEN Shown' = evt'.msg
          ELSE Displayed' = Displayed ]_vars

C1_Witness ==
    /\ evt.kind = "kanpe_message"
    /\ ~includes(evt.msg.target_monitor_ids, ALL)
    /\ Passes(evt.msg.target_monitor_ids, DisplayIds)
    /\ Shown = evt.msg

\* C2: a flash or clear directive with targets T takes effect on a caster with
\* display ids D if and only if T contains ALL or shares an id with D: a passing
\* flash raises the flash signal, a passing clear removes the shown message, and
\* a directive that does not pass changes nothing.
C2_FlashClearFilter ==
    [][ /\ evt'.kind = "flash_command" =>
             IF Passes(evt'.msg.target_monitor_ids, DisplayIds)
             THEN IF proc = "web" THEN elements'.flashAnimation
                                  ELSE hook'.flashTrigger = hook.flashTrigger + 1
             ELSE Displayed' = Displayed
        /\ evt'.kind = "clear_command" =>
             IF Passes(evt'.msg.target_monitor_ids, DisplayIds)
             THEN /\ Shown' = NoMessage
                  /\ proc # "web" => hook'.clearTrigger = hook.clearTrigger + 1
             ELSE Displayed' = Displayed ]_vars

C2_Witness ==
    /\ evt.kind = "flash_command"
    /\ ~includes(evt.msg.target_monitor_ids, ALL)
    /\ Passes(evt.msg.target_monitor_ids, DisplayIds)
    /\ proc # "web"
    /\ hook.flashTrigger > 0

\* C3: after a clear directive passes the filter the caster has no shown
\* message, and it has none until a later kanpe message passes the filter.
C3_ClearedUntilNextKanpe ==
    [][ /\ evt'.kind = "clear_command"
           /\ Passes(evt'.msg.target_monitor_ids, DisplayIds) => Shown' = NoMessage
        /\ Shown = NoMessage /\ Shown' # NoMessage =>
             /\ evt'.kind = "kanpe_message"
             /\ nextId' = nextId + 1
             /\ Passes(evt'.msg.target_monitor_ids, DisplayIds)
             /\ Shown' = evt'.msg ]_vars

C3_Witness ==
    /\ proc # "web"
    /\ hook.clearTrigger > 0
    /\ evt.kind = "kanpe_message"
    /\ Shown = evt.msg
    /\ Shown.id = MaxMsgs

\* C4: the web caster acts on a directive only on a connection that is past
\* the handshake, and never holds a current message while its connected flag
\* is false.
C4_NoMessageWhileDisconnected ==
    /\ state.currentMessage # NoMessage => state.connected
    /\ evt.kind = "kanpe_message" /\ state.currentMessage = evt.msg =>
          state.ws = evt.sock

\* C5: when a socket opens the web caster sends exactly one client_hello on it,
\* carrying its name and display ids, before any other frame, and it becomes
\* connected only by a server_welcome received on the socket it holds.
C5_HelloThenWelcome ==
    [][ /\ evt'.kind = "open" =>
             /\ Len(tx') = 1
             /\ tx'[1] = ClientFrame(evt'.sock, "client_hello", tx'[1].id,
                                     state'.clientName, state'.selectedMonitorIds)
        /\ \A i \in 1..Len(tx') :
             tx'[i].type # "client_hello" => conn'[tx'[i].sock] # "violation"
        /\ ~state.connected /\ state'.connected =>
             /\ evt'.kind = "server_welcome"
             /\ state'.ws = evt'.sock ]_vars

\* C6: a peer that breaks the protocol (a frame that is not JSON, or a first
\* frame that is not server_welcome) gets its connection closed by the web
\* caster instead of being processed further.
C6_ViolationCloses ==
    evt.kind \in {"unparsable", "unexpected_first"} =>
        /\ sockets[evt.sock] \in {"CLOSING", "CLOSED"}
        /\ ~state.connected

\* C7: after a monitor_list_sync the caster's mirror is exactly the list the
\* frame carried; nothing of the previous mirror survives.
C7_SyncReplaces ==
    evt.kind = "monitor_list_sync" => Mirror = evt.msg.monitors

C7_Witness ==
    /\ proc = "web"
    /\ evt.kind = "monitor_list_sync"
    /\ Mirror = evt.msg.monitors
    /\ Mirror # PlaceholderMonitors
    /\ ~state.connected
    /\ elements.monitorList = [ i \in 1..Len(Mirror) |-> Mirror[i].id ]

\* C8: every caster applies each monitor delta to its mirror: an added monitor
\* is appended, a removed one is dropped, an updated one is replaced in place.
C8_DeltasApplied ==
    [][ /\ evt'.kind = "monitor_added" =>
             Mirror' = Append(Mirror, evt'.msg.monitors[1])
        /\ evt'.kind = "monitor_removed" =>
             Mirror' = filterOutId(Mirror, evt'.msg.monitor_id)
        /\ evt'.kind = "monitor_updated" =>
             Mirror' = mapReplace(Mirror, evt'.msg.monitors[1]) ]_vars

\* C9: a caster keeps the kanpe messages that passed its filter in the order
\* it received them, without duplicates, and whenever the shown message
\* changes to a message it is the one received last.
C9_ReceiptOrder ==
    [][ /\ StrictlyIncreasingIds(hook'.messages)
        /\ nextId' = nextId + 1 /\ proc # "web"
           /\ Passes(evt'.msg.target_monitor_ids, DisplayIds) =>
             hook'.messages = Append(hook.messages, evt'.msg)
        /\ Shown' # Shown /\ Shown' # NoMessage =>
             /\ Shown'.id = nextId'
             /\ Shown' = evt'.msg
             /\ Shown # NoMessage => Shown.id < Shown'.id ]_vars

C9_Witness ==
    /\ proc # "web"
    /\ Len(hook.messages) = MaxMsgs
    /\ Shown = evt.msg
    /\ Shown.id = MaxMsgs

\* C10: the web caster answers a ping with exactly one pong, on the socket the
\* ping came from, carrying the ping's id.
C10_PongEchoesId ==
    evt.kind = "ping" =>
        /\ Len(tx) = 1
        /\ tx[1].type = "pong"
        /\ tx[1].sock = evt.sock
        /\ tx[1].id = evt.msg.id

\* C11: after an explicit disconnect() the StreamDeck client is idle until
\* connect is called again: no reconnect timer is pending and no socket is held
\* or dialed, whatever close events arrive in between.
C11_NoReconnectAfterDisconnect ==
    proc = "deck" /\ deck.idle => ~deck.reconnectTimer /\ deck.ws = NoSocket

\* C12: whenever a socket of the web caster closes, at any stage of the
\* session, the caster ends idle: connected is false, no socket is held, no
\* current message is shown and the connect control is enabled.
C12_CloseEndsIdle ==
    proc = "web" /\ evt.kind \in {"close", "error"} =>
        /\ ~state.connected
        /\ state.ws = NoSocket
        /\ state.currentMessage = NoMessage
        /\ ~elements.connectBtnDisabled

\* C13: a send attempted while the client is not connected is refused and
\* transmits nothing: the StreamDeck client's send() rejects when its socket is
\* absent or not open, and the web caster writes a feedback_message only while
\* it is connected.
C13_SendRefusedUnlessConnected ==
    [][ /\ evt'.kind = "deck_send" /\ ~isConnected(DeckWorld) =>
             tx' = <<>> /\ deck'.sendResult = "rejected"
        /\ proc = "web" =>
             \A i \in 1..Len(tx') :
                tx'[i].type = "feedback_message" => state.connected /\ state'.connected ]_vars

C13_Witness ==
    /\ proc = "deck"
    /\ evt.kind = "deck_send"
    /\ deck.ws # NoSocket
    /\ sockets[deck.ws] = "CONNECTING"
    /\ deck.sendResult = "rejected"
    /\ tx = <<>>

\* C14: a feedback or control request is written to a socket only in the step
\* that makes it, and there at most once: nothing is queued, retried or
\* replayed by a later step such as a reconnect.
C14_AtMostOnce ==
    [][ \A i \in 1..Len(tx') :
           tx'[i].type \in RequestTypes \cup {"feedback_message"} =>
              /\ reqs' = reqs + 1
              /\ tx'[i].id = reqs'
              /\ Len(tx') = 1 ]_vars

C14_Witness ==
    /\ proc = "deck"
    /\ evt.kind = "open"
    /\ deck.sendResult = "rejected"
    /\ reqs > 0
    /\ isConnected(DeckWorld)
    /\ tx = <<>>

\* C15: the reply_to_message_id of every feedback_message a caster sends is
\* empty or the id of the message the caster shows, which is the most recent
\* kanpe that passed its filter and was not cleared since.
C15_ReplyToShown ==
    [][ \A i \in 1..Len(tx') :
           tx'[i].type = "feedback_message" =>
              \/ tx'[i].reply_to_message_id = EmptyId
              \/ Shown # NoMessage /\ tx'[i].reply_to_message_id = Shown.id ]_vars

C15_Witness ==
    /\ evt.kind = "feedback_reply"
    /\ Len(tx) = 1
    /\ Shown # NoMessage
    /\ tx[1].reply_to_message_id = Shown.id
    /\ Shown.id < nextId

\* C16: the director's window never invokes send_kanpe_message with an empty
\* target list, whatever targets were toggled and whatever monitors were removed.
C16_NoEmptyTargets ==
    \A i \in 1..Len(dir.invoked) :
       dir.invoked[i].cmd = "send_kanpe_message" => dir.invoked[i].targetMonitorIds # <<>>

C16_Witness ==
    /\ evt.kind = "send_message"
    /\ Len(dir.invoked) = 1
    /\ dir.invoked[1].cmd = "send_kanpe_message"
    /\ dir.invoked[1].targetMonitorIds = << "B" >>
    /\ dir.minted = 2
    /\ Len(dir.registry) = 1

\* The ids of the monitors the window lists
MonitorIds == { dir.monitors[i].id : i \in 1..Len(dir.monitors) }

\* C17: the targets of an emitted kanpe are monitors of the window's list or
\* ALL, and once no event and no invoke is under way the target selection
\* holds no id of a monitor that left the list, also after a removal and after
\* a server stop and restart.
C17_TargetsAreMonitors ==
    /\ \A i \in 1..Len(dir.invoked) :
          dir.invoked[i].cmd = "send_kanpe_message" =>
             Range(dir.invoked[i].targetMonitorIds) \subseteq MonitorIds \cup {ALL}
    /\ dir.pending = <<>> /\ dir.events = <<>> =>
          Range(dir.targetMonitorIds) \subseteq MonitorIds \cup {ALL}

\* C19: adding a monitor whose name is empty after trimming fails: no invoke is
\* made and nothing of the window or the registry changes except the error.
C19_EmptyNameRejected ==
    [][ evt'.kind = "add_monitor" /\ trim(dir.newMonitorName) = "" =>
           dir' = [dir EXCEPT !.error = "Monitor name cannot be empty",
                              !.invoked = <<>>] ]_vars

C19_Witness ==
    /\ evt.kind = "add_monitor"
    /\ dir.newMonitorName = " "
    /\ dir.error = "Monitor name cannot be empty"
    /\ dir.monitors # <<>>

IsPrefix(a, b) == Len(a) <= Len(b) /\ SubSeq(b, 1, Len(a)) = a

\* C20: the window records feedback in arrival order: every feedback_received
\* appends its feedback at the end, and no step but the server's stop removes
\* or reorders what was recorded.
C20_FeedbackAppendOnly ==
    [][ /\ evt'.kind # "server_stopped" =>
             IsPrefix(dir.feedbackMessages, dir'.feedbackMessages)
        /\ evt'.kind = "feedback_received" =>
             dir'.feedbackMessages = Append(dir.feedbackMessages, Head(dir.events).feedback)
        /\ \A i, j \in 1..Len(dir'.feedbackMessages) :
             i < j => dir'.feedbackMessages[i] < dir'.feedbackMessages[j] ]_vars

C20_Witness ==
    /\ evt.kind = "feedback_received"
    /\ dir.feedbackMessages = << 1, 2 >>

\* C18: a caster whose display monitor ids are empty can still connect, and
\* it renders a kanpe message and reacts to a flash or a clear exactly when
\* the target list contains ALL.
C18_EmptyDisplayIds ==
    [][ /\ proc = "web" /\ evt'.kind = "connect"
           /\ elements.clientNameInput # "" /\ state.selectedMonitorIds = <<>> =>
              state'.ws # NoSocket /\ sockets'[state'.ws] = "CONNECTING"
        /\ DisplayIds = <<>> /\ nextId' = nextId + 1 =>
              IF includes(evt'.msg.target_monitor_ids, ALL)
              THEN Shown' = evt'.msg
              ELSE Displayed' = Displayed
        /\ DisplayIds = <<>> /\ evt'.kind \in {"flash_command", "clear_command"} =>
              IF includes(evt'.msg.target_monitor_ids, ALL)
              THEN Displayed' # Displayed \/ Shown = NoMessage
              ELSE Displayed' = Displayed ]_vars

\* C21: every feedback_type a caster-side component emits, in the web caster's
\* feedback_message and in the plugin's send_feedback and react_to_latest
\* requests, is one of ack, question, issue, info.
C21_FeedbackTypeVocabulary ==
    \A i \in 1..Len(tx) :
       tx[i].type \in {"feedback_message", "send_feedback", "react_to_latest"} =>
          tx[i].feedback_type \in {"ack", "question", "issue", "info"}

\* C22: once the window has processed server_stopped it is not running, has no
\* port and holds no client, no feedback and no monitor; and its running flag
\* turns true only by a server_started and false only by a server_stopped.
C22_StopDestroysSession ==
    [][ /\ evt'.kind = "server_stopped" =>
             /\ ~dir'.isRunning /\ dir'.port = NoPort
             /\ dir'.clients = <<>> /\ dir'.feedbackMessages = <<>> /\ dir'.monitors = <<>>
        /\ evt'.kind = "server_started" => dir'.isRunning
        /\ dir'.isRunning /\ ~dir.isRunning => evt'.kind = "server_started"
        /\ ~dir'.isRunning /\ dir.isRunning => evt'.kind = "server_stopped" ]_vars

C22_Witness ==
    /\ evt.kind = "server_stopped"
    /\ ~dir.isRunning
    /\ dir.minted > 0 /\ dir.received > 0 /\ dir.accepted > 0
    /\ dir.monitors = <<>> /\ dir.clients = <<>> /\ dir.feedbackMessages = <<>>

\* The capacity of the history, scaled so that the feedback of one behaviour can exceed it
HistoryCapacity == MaxFeedback - 1

\* C23: the feedback entries the window retains never exceed the capacity of
\* the history; at the bound the oldest entry makes room for the new one.
C23_HistoryBounded ==
    Len(dir.feedbackMessages) <= HistoryCapacity

\* C24: the React to Latest key goes to its new-message state when a
\* state_update reports a latest message with a new id, a key press whose
\* request was sent returns it to the default state, and a state_update that
\* reports the same id again does not raise the alert again.
C24_NewMessageAlert ==
    [][ /\ evt'.kind = "state_update" /\ deck.reactHandler /\ evt'.msg.id # EmptyId =>
             IF evt'.msg.id # deck.latestSeen
             THEN deck'.buttonState = 1 /\ deck'.hasNewMessage
             ELSE deck'.buttonState = deck.buttonState
                  /\ deck'.hasNewMessage = deck.hasNewMessage
        /\ deck'.key # deck.key /\ deck'.key.action = "react_to_latest"
           /\ deck'.key.shown = "ok" =>
             deck'.buttonState = 0 /\ ~deck'.hasNewMessage ]_vars

\* The sockets that are connecting or open
LiveSockets == { s \in SocketIds : sockets[s] \in {"CONNECTING", "OPEN"} }

\* C27: the StreamDeck client has at most one connecting or open socket at a
\* time, and a socket that is alive is the one the client refers to.
C27_OneLiveSocket ==
    proc = "deck" =>
        /\ Cardinality(LiveSockets) <= 1
        /\ \A s \in LiveSockets : s = deck.ws

\* C28: at most one reconnect timeout is armed at any time, and a timeout that
\* fires dials only if the client is not connected at that moment.
C28_OneReconnectTimer ==
    [][ /\ deck'.timers <= 1
        /\ evt'.kind = "reconnect_timeout" /\ isConnected(DeckWorld) =>
              sockets' = sockets /\ deck'.ws = deck.ws
        /\ evt'.kind = "reconnect_timeout" /\ sockets' # sockets =>
              ~isConnected(DeckWorld) ]_vars

C28_Witness ==
    /\ proc = "deck"
    /\ evt.kind = "reconnect_timeout"
    /\ isConnected(DeckWorld)
    /\ deck.timers = 0
    /\ \E s \in SocketIds : sockets[s] = "CLOSED"

\* C30: a key press that has ended called exactly one of showOk and showAlert:
\* showOk only if its request was written to an open socket, showAlert otherwise.
C30_KeyPressFeedback ==
    deck.key.phase = "done" =>
        /\ deck.key.shown \in {"ok", "alert"}
        /\ deck.key.shown = "ok" <=> deck.key.written

\* C25: the director's target selection is exactly <<ALL>> or a list of
\* specific monitor ids without ALL and without duplicates; selecting ALL
\* yields exactly <<ALL>> and selecting a specific monitor drops ALL.
C25_TargetSelectionShape ==
    [][ /\ \/ dir'.targetMonitorIds = << ALL >>
           \/ /\ ~includes(dir'.targetMonitorIds, ALL)
              /\ \A i, j \in 1..Len(dir'.targetMonitorIds) :
                    i # j => dir'.targetMonitorIds[i] # dir'.targetMonitorIds[j]
        /\ evt'.kind = "toggle_ALL" => dir'.targetMonitorIds = << ALL >>
        /\ evt'.kind \in {"toggle_A", "toggle_B"} => ~includes(dir'.targetMonitorIds, ALL) ]_vars

C25_Witness ==
    /\ evt.kind = "settled_remove"
    /\ dir.targetMonitorIds = << "B" >>
    /\ Len(dir.monitors) = 1
    /\ dir.minted = 2

\* C26: in the web caster the close event of a socket that was disconnected
\* and replaced by a newer connection attempt leaves the newer connection
\* alone: state.ws and the connected flag stay as they are; and a socket that
\* delivers a frame to the handlers is the one state.ws refers to.
C26_StaleCloseIgnored ==
    [][ /\ evt'.kind = "close" /\ state.ws # NoSocket /\ evt'.sock # state.ws =>
             state'.ws = state.ws /\ state'.connected = state.connected
        /\ evt'.kind \in {"server_welcome", "monitor_list_sync", "kanpe_message",
                          "flash_command", "clear_command"} =>
             state.ws = evt'.sock ]_vars

\* C29: the caster window's isConnected flag reflects the most recent
\* connection event: while the backend is disconnected (its last event was
\* connection_lost) the flag only turns true by a connection_established
\* event, whenever the initial get_client_connection_status query resolves.
C29_LostUntilEstablished ==
    [][ ~hook'.status /\ hook'.isConnected => hook.isConnected ]_vars

====
